---- MODULE Spec2Model ----
(***************************************************************************)
(* Model of saltext/cohesity/modules/cohesity_mod.py: the Salt execution   *)
(* module that drives a Cohesity cluster through the management SDK.       *)
(*                                                                         *)
(* The cluster (jobs, registered root sources) is the remote state the     *)
(* module reads and writes through SDK calls.  Every public function is    *)
(* one action: it runs from its first line to its return (or to the        *)
(* exception that leaves it), and records the SDK calls it issued, in      *)
(* order, and the way it ended.  An SDK call may always fail with          *)
(* APIException; list calls answer in a server-defined order.              *)
(***************************************************************************)
EXTENDS Integers, Sequences, FiniteSets, TLC

VARIABLES
    jobs,    \* cluster: protection jobs, job id = index; soft-deleted jobs stay
    roots,   \* cluster: registered VMware root sources, in listing order
    built,   \* process: number of CohesityClient objects constructed so far
    op,      \* the public function last invoked, with its arguments
    calls,   \* what that invocation did, in order: the clients it constructed, its
             \* SDK calls, and what _get_vmware_source_ids returned to it
    ret,     \* how it ended: a returned string or a raised exception
    pre,     \* the jobs table as it was when the invocation started
    source_tree,  \* the list_protection_sources answer (source_objects) a caller
                  \* holds between its _fetch_source_objects calls, as they leave it
    fresh    \* that answer as the server gave it

vars == <<jobs, roots, built, op, calls, ret, pre, source_tree, fresh>>

----------------------------------------------------------------------------
(* Bounds of the model *)

MaxJobs == 2        \* the cluster refuses a further job (APIException)
MaxBuilt == 3       \* the count of constructed clients saturates here
MaxSnapshots == 3   \* longest answer of restore_tasks.search_objects
MaxTime == 2        \* started_time_usecs ranges over 1..MaxTime
MaxRuns == 2        \* longest answer of protection_runs.get_protection_runs
MaxNodes == 3       \* most nodes in a source tree handed to _fetch_source_objects
MaxFetches == 2     \* _fetch_source_objects calls on one answer (restore_vms makes 2)

----------------------------------------------------------------------------
(* Python values *)

None == "None"
\* Where an id is expected: None (falsy, as 0 is; no id is 0) and a local name
\* that was never assigned (reading it raises UnboundLocalError).
NoneId == 0
Unbound == -2
APIException == "APIException"

Str(template) == [kind |-> "str", text |-> template]
Raise(exc) == [kind |-> "raise", text |-> exc]

Call(api, arg) == [api |-> api, arg |-> arg]

Range(s) == {s[i] : i \in 1..Len(s)}

\* All listings of the set S: every element once, in any order.
Perms(S) ==
    {s \in [1..Cardinality(S) -> S] : \A i, j \in 1..Cardinality(S) : i # j => s[i] # s[j]}

\* str.split(","): a string is a sequence of characters.
RECURSIVE SplitFrom(_, _, _, _)
SplitFrom(s, i, cur, acc) ==
    IF i > Len(s) THEN Append(acc, cur)
    ELSE IF s[i] = "," THEN SplitFrom(s, i + 1, <<>>, Append(acc, cur))
    ELSE SplitFrom(s, i + 1, Append(cur, s[i]), acc)

split(s) == SplitFrom(s, 1, <<>>, <<>>)

\* list.remove(x): drops the first occurrence; the caller checks x is present.
RECURSIVE remove(_, _)
remove(s, x) ==
    IF s = <<>> THEN <<>>
    ELSE IF Head(s) = x THEN Tail(s)
    ELSE <<Head(s)>> \o remove(Tail(s), x)

----------------------------------------------------------------------------
(* The cluster behind the SDK *)

\* Names are strings; the VM-name and job-name arguments are sequences of
\* characters so that split(",") and indexing act on them as Python does.
JobNames == {"a", "ab"}
\* vcenter_name arguments: the endpoint of the vCenter, its display name, and a
\* name no registered source has.
VcenterNames == {"vc1", "dc1", "vcX"}
\* The vCenter register_vcenter is asked to register, with the display name and
\* the id the cluster gives it.
Endpoints == {"vc1"}
DisplayName(endpoint) == IF endpoint = "vc1" THEN "dc1" ELSE endpoint
SourceId(endpoint) == IF endpoint = "vc1" THEN 101 ELSE 102

\* The virtual machines the cluster knows, each under one vCenter.
VMs == {[id |-> 1, name |-> <<"v">>, parent |-> 101],
        [id |-> 2, name |-> <<"w">>, parent |-> 101]}

\* sources / vm_names arguments: "v", "w,v", "z" (z names no VM).
SourceArgs == {<<"v">>, <<"w", ",", "v">>, <<"z">>}

States == {"activate", "deactivate", "pause", "resume", "stop"}
RunStatuses == {"kAccepted", "kRunning", "kSuccess"}

\* protection_jobs.get_protection_jobs(names=n, is_deleted=False): the server's
\* name filter; the callers compare job.name with job_name again because an
\* answer may hold jobs whose name only contains n.
NameMatches(n, name) == name = n \/ (n = "a" /\ name = "ab")

\* An SDK call answers with a value or raises APIException.
Fail == [ok |-> FALSE, val |-> <<>>]
Ok(v) == [ok |-> TRUE, val |-> v]

\* The record of a get_protection_jobs call: the names asked for and the answer.
Lookup(n, resp) ==
    [api |-> "get_protection_jobs", arg |-> [names |-> n, ok |-> resp.ok, listed |-> resp.val]]

\* The answers of get_protection_jobs: the matching non-deleted job ids in any
\* order, or APIException.
get_protection_jobs(n) ==
    {Fail} \cup
    {Ok(s) : s \in Perms({j \in 1..Len(jobs) :
                             ~jobs[j].is_deleted /\ NameMatches(n, jobs[j].name)})}

\* protection_sources.list_protection_sources_root_nodes(): the registered roots.
list_protection_sources_root_nodes == {Fail, Ok(roots)}

\* protection_sources.list_virtual_machines(v_center_id, names): the VMs of that
\* vCenter with one of the names, in any order.  What the server answers for the
\* id -1 is up to the server: a failure, nothing, or the VMs with these names
\* under any vCenter.
list_virtual_machines(v_center_id, names) ==
    LET under == {vm \in VMs : vm.parent = v_center_id /\ vm.name \in Range(names)}
        any == {vm \in VMs : vm.name \in Range(names)}
    IN  {Fail} \cup {Ok(s) : s \in Perms(under)} \cup
        (IF v_center_id = -1 THEN {Ok(s) : s \in Perms(any)} ELSE {})

\* protection_runs.get_protection_runs(job_id): the job's runs, most recent first;
\* run ids grow with time, so the run at position i of n has id n + 1 - i.
get_protection_runs(job_id) ==
    {Fail} \cup
    UNION {{Ok([i \in 1..n |-> [job_run_id |-> n + 1 - i, status |-> st[i]]]) :
               st \in [1..n -> RunStatuses]} : n \in 0..MaxRuns}

\* restore_tasks.search_objects(): object_snapshot_info, one record per protected
\* object and job; versions[0] of the record at position i is run i.
search_objects ==
    {Fail} \cup
    UNION {{Ok([i \in 1..n |-> [job_id |-> 1, job_uid |-> i, job_run_id |-> i,
                                started_time_usecs |-> ts[i]]]) :
               ts \in [1..n -> 1..MaxTime]} : n \in 0..MaxSnapshots}

\* view_boxes.get_view_boxes(names) and
\* protection_policies.get_protection_policies(names): the ids with that name.
get_view_boxes(name) ==
    {Fail, Ok(IF name = "DefaultStorageDomain" THEN <<21>> ELSE <<>>)}
get_protection_policies(name) ==
    {Fail, Ok(IF name = "Gold" THEN <<11>> ELSE <<>>)}

\* A node of the source tree: node["protectionSource"]["id"], ["name"],
\* ["vmWareProtectionSource"]["type"], and node["nodes"].
Node(id, name, type, nodes) == [id |-> id, name |-> name, type |-> type, nodes |-> nodes]

\* protection_sources.list_protection_sources(id): the tree under that root;
\* an id the cluster does not know has no tree.
list_protection_sources(id) ==
    {Fail} \cup
    (IF id = 101
       THEN {Ok(<<[id |-> 101, nodes |->
                     <<Node(110, "dc", "kDatacenter",
                            <<Node(111, "pool", "kResourcePool", <<>>),
                              Node(112, "ds", "kDatastore", <<>>)>>)>>]>>)}
     ELSE {Ok(<<>>)})

\* The source trees _fetch_source_objects is given: every ordered forest of at
\* most MaxNodes nodes, every node carrying a type, a name and an id of its own.
\* parent[i] is the node that lists node i among its "nodes" (0: the top list);
\* the children of a node stand in the order of their ids.
SourceTypes == {"kResourcePool", "kDatastore"}
SourceNames == {"p", "q"}

Sorted(S) ==
    [k \in 1..Cardinality(S) |-> CHOOSE x \in S : Cardinality({y \in S : y < x}) = k - 1]

RECURSIVE NodesUnder(_, _, _)
NodesUnder(parent, label, p) ==
    LET ch == Sorted({i \in DOMAIN parent : parent[i] = p})
    IN  [k \in 1..Len(ch) |->
           Node(ch[k], label[ch[k]].name, label[ch[k]].type,
                NodesUnder(parent, label, ch[k]))]

Forests(n) ==
    {NodesUnder(parent, label, 0) :
       parent \in {f \in [1..n -> 0..n] : \A i \in 1..n : f[i] < i},
       label \in [1..n -> [name : SourceNames, type : SourceTypes]]}

\* What list_protection_sources answers with: one object whose .nodes is the forest.
SourceObjects == {<<[id |-> 101, nodes |-> f]>> : f \in UNION {Forests(n) : n \in 0..MaxNodes}}

----------------------------------------------------------------------------
(* The private helpers *)

\* _get_client, lines 58-76.  __context__ is rebound to a fresh dict whose only
\* key is the literal "context_key", so the lookup of the formatted key misses
\* and a CohesityClient is constructed on every call.
context_key == "saltext.cohesity.modules.cohesity_mod.cohesity_client"
LocalContext == [k \in {"context_key"} |-> None]
get_client ==
    IF context_key \in DOMAIN LocalContext
      THEN [calls |-> <<>>, client |-> LocalContext[context_key]]
      ELSE [calls |-> <<Call("CohesityClient", "/etc/salt/master")>>,
            client |-> "CohesityClient"]

\* _get_sd_id, lines 85-95: resp[0].id, or None for an empty answer; an
\* APIException leaves the helper.
get_sd_id(name) ==
    {[calls |-> get_client.calls \o <<Call("get_view_boxes", name)>>,
      exc |-> IF r.ok THEN None ELSE APIException,
      val |-> IF r.ok /\ r.val # <<>> THEN r.val[1] ELSE NoneId] :
        r \in get_view_boxes(name)}

\* _get_policy_id, lines 98-109.
get_policy_id(name) ==
    {[calls |-> get_client.calls \o <<Call("get_protection_policies", name)>>,
      exc |-> IF r.ok THEN None ELSE APIException,
      val |-> IF r.ok /\ r.val # <<>> THEN r.val[1] ELSE NoneId] :
        r \in get_protection_policies(name)}

\* The loop of lines 125-131: the last root whose endpoint or name is `name`.
RECURSIVE ParentLoop(_, _, _, _)
ParentLoop(result, i, name, parent_id) ==
    IF i > Len(result) THEN parent_id
    ELSE ParentLoop(result, i + 1, name,
                    IF name \in {result[i].endpoint, result[i].name}
                      THEN result[i].id ELSE parent_id)

\* The loop of lines 137-139 over the listed vms; ValueError when a listed vm's
\* name is not (any longer) in vm_names.
RECURSIVE VmLoop(_, _, _, _)
VmLoop(vms, i, vm_names, source_id_list) ==
    IF i > Len(vms) THEN [exc |-> None, source_ids |-> source_id_list]
    ELSE IF vms[i].name \notin Range(vm_names)
      THEN [exc |-> "ValueError", source_ids |-> source_id_list]
    ELSE VmLoop(vms, i + 1, remove(vm_names, vms[i].name),
                Append(source_id_list, vms[i].id))

\* One outcome of _get_vmware_source_ids: the calls it issued, closed by the
\* record of what it returned for `name`, and the exception that left it, if any.
Resolved(c, exc, name, parent_id, source_ids) ==
    [calls |-> c \o <<Call("_get_vmware_source_ids",
                           [name |-> name, exc |-> exc, parent_id |-> parent_id,
                            source_ids |-> source_ids])>>,
     exc |-> exc, parent_id |-> parent_id, source_ids |-> source_ids]

\* _get_vmware_source_ids, lines 112-149: the set of its outcomes.
get_vmware_source_ids(name, vm_list) ==
    LET c0 == get_client.calls \o <<Call("list_protection_sources_root_nodes", "kVMware")>>
    IN  UNION {
          IF ~rs.ok
            THEN {Resolved(c0, None, name, -1, <<>>)}
          ELSE
            LET parent_id == ParentLoop(rs.val, 1, name, -1)
                c1 == c0 \o <<Call("list_virtual_machines", parent_id)>>
            IN  {IF ~vs.ok
                   THEN Resolved(c1, None, name, -1, <<>>)
                 ELSE LET l == VmLoop(vs.val, 1, vm_list, <<>>)
                      IN  Resolved(c1, l.exc, name, parent_id, l.source_ids) :
                   \* line 134: the listing is asked for whatever parent_id is
                   vs \in list_virtual_machines(parent_id, vm_list)} :
          rs \in list_protection_sources_root_nodes}

\* A variant of line 430 that puts the children in the place of their node
\* (nodes[i:i+1] = node["nodes"]) while the walk moves on to the next index.
RECURSIVE FetchLoopSplice(_, _, _, _)
FetchLoopSplice(nodes, i, source_type, name) ==
    IF i > Len(nodes) THEN [val |-> NoneId, nodes |-> nodes]
    ELSE IF nodes[i].nodes # <<>>
      THEN FetchLoopSplice(SubSeq(nodes, 1, i - 1) \o nodes[i].nodes
                             \o SubSeq(nodes, i + 1, Len(nodes)),
                           i + 1, source_type, name)
    ELSE IF nodes[i].type = source_type /\ (name = "" \/ name = nodes[i].name)
      THEN [val |-> nodes[i].id, nodes |-> nodes]
    ELSE FetchLoopSplice(nodes, i + 1, source_type, name)

\* The loop of lines 428-438 of _fetch_source_objects over the list `nodes`, which
\* grows while it is walked; a node with children is never compared.
RECURSIVE FetchLoop(_, _, _, _)
FetchLoop(nodes, i, source_type, name) ==
    IF i > Len(nodes) THEN [val |-> NoneId, nodes |-> nodes]
    ELSE IF nodes[i].nodes # <<>>
      THEN FetchLoop(nodes \o nodes[i].nodes, i + 1, source_type, name)
    ELSE IF nodes[i].type = source_type /\ (name = "" \/ name = nodes[i].name)
      THEN [val |-> nodes[i].id, nodes |-> nodes]
    ELSE FetchLoop(nodes, i + 1, source_type, name)

\* _fetch_source_objects, lines 422-440: the id found (or None), the exception
\* raised, and source_objects as the call leaves it.
fetch_source_objects(source_objects, source_type, name) ==
    IF source_objects = <<>>
      THEN [exc |-> "IndexError", val |-> NoneId, source_objects |-> source_objects]
    ELSE LET r == FetchLoop(source_objects[1].nodes, 1, source_type, name)
         IN  [exc |-> None, val |-> r.val,
              source_objects |-> [source_objects EXCEPT ![1].nodes = r.nodes]]

----------------------------------------------------------------------------
(* The state *)

Min(a, b) == IF a < b THEN a ELSE b

Constructed(c) == Cardinality({i \in 1..Len(c) : c[i].api = "CohesityClient"})

\* The end of one invocation: what it was, what it issued, how it ended, and the
\* cluster it leaves.
Finish(o, c, r, jobs2, roots2) ==
    /\ op' = o
    /\ calls' = c
    /\ ret' = r
    /\ jobs' = jobs2
    /\ roots' = roots2
    /\ pre' = jobs
    /\ built' = Min(built + Constructed(c), MaxBuilt)
    /\ UNCHANGED <<source_tree, fresh>>

Init ==
    /\ jobs = <<>>
    /\ roots = <<>>
    /\ built = 0
    /\ op = [name |-> "none"]
    /\ calls = <<>>
    /\ ret = Str("")
    /\ pre = <<>>
    /\ source_tree = <<>>
    /\ fresh = <<>>

----------------------------------------------------------------------------
(* The public functions *)

\* The loop of lines 166-169: an endpoint equal to vcenter is already there.
RECURSIVE Registered(_, _, _)
Registered(existing_sources, i, vcenter) ==
    IF i > Len(existing_sources) THEN FALSE
    ELSE IF existing_sources[i].endpoint = vcenter THEN TRUE
    ELSE Registered(existing_sources, i + 1, vcenter)

\* register_vcenter, lines 152-181.
register_vcenter(vcenter) ==
    LET o == [name |-> "register_vcenter", vcenter |-> vcenter]
        c0 == get_client.calls \o <<Call("list_protection_sources_root_nodes", "kVMware")>>
        c1 == c0 \o <<Call("create_register_protection_source", vcenter)>>
    IN  \E rs \in list_protection_sources_root_nodes :
          IF ~rs.ok THEN Finish(o, c0, Str("{err}"), jobs, roots)
          ELSE IF Registered(rs.val, 1, vcenter)
            THEN Finish(o, c0, Str("Source with name {} is already registered"), jobs, roots)
          ELSE \E ok \in BOOLEAN :
                 IF ok
                   THEN Finish(o, c1, Str("Successfully registered Vcenter {}"), jobs,
                               Append(roots, [id |-> SourceId(vcenter), endpoint |-> vcenter,
                                              name |-> DisplayName(vcenter)]))
                   ELSE Finish(o, c1, Str("{err}"), jobs, roots)

\* Line 211: the job is taken to exist when the first listed job has the name.
JobExists(resp, job_name) == resp # <<>> /\ jobs[resp[1]].name = job_name

\* protection_jobs.create_protection_job(body) on the cluster: the new job.
NewJob(body) == [name |-> body.name, is_deleted |-> FALSE, source_ids |-> body.source_ids]

\* create_vmware_protection_job, lines 184-239 (policy, domain, timezone and
\* description at their defaults).
create_vmware_protection_job(job_name, vcenter_name, sources, pause_job) ==
    LET o == [name |-> "create_vmware_protection_job", job_name |-> job_name,
              vcenter_name |-> vcenter_name, sources |-> sources, pause_job |-> pause_job]
        err == Str("Error creating job {} {}")
    IN  \E resp \in get_protection_jobs(job_name) :
        LET c0 == get_client.calls \o <<Lookup(job_name, resp)>> IN
          IF ~resp.ok THEN Finish(o, c0, err, jobs, roots)
          ELSE IF JobExists(resp.val, job_name)
            THEN Finish(o, c0, Str("Job with name {} already exists."), jobs, roots)
          ELSE \E p \in get_policy_id("Gold") :
            IF p.exc # None THEN Finish(o, c0 \o p.calls, err, jobs, roots)
            ELSE \E d \in get_sd_id("DefaultStorageDomain") :
              IF d.exc # None THEN Finish(o, c0 \o p.calls \o d.calls, err, jobs, roots)
              ELSE \E r \in get_vmware_source_ids(vcenter_name, split(sources)) :
                LET c1 == c0 \o p.calls \o d.calls \o r.calls
                    body == [name |-> job_name, policy_id |-> p.val, view_box_id |-> d.val,
                             parent_source_id |-> r.parent_id, source_ids |-> r.source_ids]
                    c2 == c1 \o <<Call("create_protection_job", body)>>
                    c3 == c2 \o <<Call("change_protection_job_state", Len(jobs) + 1)>>
                    success == Str("Successfully created ProtectionGroup: {}")
                IN  IF r.exc # None THEN Finish(o, c1, Raise(r.exc), jobs, roots)
                    ELSE IF body.parent_source_id = -1
                      THEN Finish(o, c1, Str("Unable to fetch Vcenter with name {}"), jobs, roots)
                    ELSE IF Len(body.source_ids) = 0
                      THEN Finish(o, c1, Str("Minimum of one VM is required to created protection job."),
                                  jobs, roots)
                    ELSE \E created \in {b \in BOOLEAN : b => Len(jobs) < MaxJobs} :
                      IF ~created THEN Finish(o, c2, err, jobs, roots)
                      ELSE IF ~pause_job
                        THEN Finish(o, c2, success, Append(jobs, NewJob(body)), roots)
                      ELSE \E paused \in BOOLEAN :
                        Finish(o, c3, IF paused THEN success ELSE err,
                               Append(jobs, NewJob(body)), roots)

\* A variant of lines 268-271 without the membership test of line 270.
MergeSourceIdsNoTest(existing, new_source_ids, replace_existing) ==
    (IF replace_existing THEN <<>> ELSE existing) \o new_source_ids

\* Lines 268-271: the member list the update submits.
MergeSourceIds(existing, new_source_ids, replace_existing) ==
    LET RECURSIVE Loop(_, _)
        Loop(source_ids, i) ==
            IF i > Len(new_source_ids) THEN source_ids
            ELSE Loop(IF new_source_ids[i] \notin Range(source_ids)
                        THEN Append(source_ids, new_source_ids[i]) ELSE source_ids,
                      i + 1)
    IN  Loop(IF replace_existing THEN <<>> ELSE existing, 1)

\* update_vmware_protection_job, lines 242-275.
update_vmware_protection_job(job_name, vcenter_name, sources, replace_existing) ==
    LET o == [name |-> "update_vmware_protection_job", job_name |-> job_name,
              vcenter_name |-> vcenter_name, sources |-> sources,
              replace_existing |-> replace_existing]
        err == Str("Error updating job {} {}")
    IN  \E resp \in get_protection_jobs(job_name) :
        LET c0 == get_client.calls \o <<Lookup(job_name, resp)>> IN
          IF ~resp.ok THEN Finish(o, c0, err, jobs, roots)
          ELSE IF resp.val = <<>>
            THEN Finish(o, c0, Str("Job with name {} not available"), jobs, roots)
          ELSE \E r \in get_vmware_source_ids(vcenter_name, split(sources)) :
            LET job_id == resp.val[1]
                c1 == c0 \o r.calls
                source_ids == MergeSourceIds(jobs[job_id].source_ids, r.source_ids,
                                             replace_existing)
                body == [jobs[job_id] EXCEPT !.source_ids = source_ids]
                c2 == c1 \o <<Call("update_protection_job",
                                   [job_id |-> job_id, source_ids |-> source_ids])>>
            IN  IF r.exc # None THEN Finish(o, c1, Raise(r.exc), jobs, roots)
                ELSE \E updated \in BOOLEAN :
                  IF updated
                    THEN Finish(o, c2, Str("Successfully Updated ProtectionGroup: {}"),
                                [jobs EXCEPT ![job_id] = body], roots)
                    ELSE Finish(o, c2, err, jobs, roots)

\* The loops of lines 296-299, 332-335, 375-378 and 406-409: the id of the first
\* listed job named job_name; job_id keeps the value it came with (none, but
\* for run_vmware_protection_job's None) when no listed job has the name.
RECURSIVE JobIdLoop(_, _, _, _)
JobIdLoop(listed, i, job_name, job_id) ==
    IF i > Len(listed) THEN job_id
    ELSE IF jobs[listed[i]].name = job_name THEN listed[i]
    ELSE JobIdLoop(listed, i + 1, job_name, job_id)

supported_states == {"activate", "deactivate", "pause", "resume"}

\* A variant of line 302 whose list of states also holds "stop".
StateRejectedButStop(state) == state \notin supported_states \cup {"stop"}

\* Line 302.
StateRejected(state) == state \notin supported_states

\* str.capitalize() on the supported states, line 306.
capitalize(state) ==
    CASE state = "activate" -> "Activate"
      [] state = "deactivate" -> "Deactivate"
      [] state = "pause" -> "Pause"
      [] state = "resume" -> "Resume"
      [] OTHER -> "Stop"

\* update_vmware_protection_job_state, lines 278-312.  The cluster's record of a
\* job's state is never read back by the module and is not kept here.
update_vmware_protection_job_state(job_name, state) ==
    LET o == [name |-> "update_vmware_protection_job_state", job_name |-> job_name,
              state |-> state]
        err == Str("Error while attempting to {} the job {} {}")
    IN  \E resp \in get_protection_jobs(job_name) :
        LET c0 == get_client.calls \o <<Lookup(job_name, resp)>> IN
          IF ~resp.ok THEN Finish(o, c0, err, jobs, roots)
          ELSE IF resp.val = <<>>
            THEN Finish(o, c0, Str("Job with name {} not available."), jobs, roots)
          ELSE
            LET job_id == JobIdLoop(resp.val, 1, job_name, Unbound)
                c1 == c0 \o <<Call("update_protection_jobs_state",
                                   [action |-> <<"k", capitalize(state)>>, job_id |-> job_id])>>
            IN  IF StateRejected(state)
                  THEN Finish(o, c0, Str("Job state {} not supported."), jobs, roots)
                ELSE IF job_id = Unbound
                  THEN Finish(o, c0, Raise("UnboundLocalError"), jobs, roots)
                ELSE \E ok \in BOOLEAN :
                  Finish(o, c1, IF ok THEN Str("Successfully {}d future run for job {}") ELSE err,
                         jobs, roots)

\* A variant of line 344 that takes the last listed run.
LatestRunLast(runs) == runs[Len(runs)]

\* Line 344: the run taken to be the latest.
LatestRun(runs) == runs[1]

\* Line 345.
Cancellable(status) == status \in {"kRunning", "kAccepted"}

\* cancel_vmware_protection_job, lines 315-355.
cancel_vmware_protection_job(job_name) ==
    LET o == [name |-> "cancel_vmware_protection_job", job_name |-> job_name]
        err == Str("Error while attempting to cancel the job {}, error : {}")
    IN  \E resp \in get_protection_jobs(job_name) :
        LET c0 == get_client.calls \o <<Lookup(job_name, resp)>> IN
          IF ~resp.ok THEN Finish(o, c0, err, jobs, roots)
          ELSE IF resp.val = <<>>
            THEN Finish(o, c0, Str("Job with name {} not available."), jobs, roots)
          ELSE
            LET job_id == JobIdLoop(resp.val, 1, job_name, Unbound)
                c1 == c0 \o <<Call("get_protection_runs", [job_id |-> job_id, runs |-> <<>>])>>
            IN  IF job_id = Unbound
                  THEN Finish(o, c0, Raise("UnboundLocalError"), jobs, roots)
                ELSE \E runs \in get_protection_runs(job_id) :
                  IF ~runs.ok THEN Finish(o, c1, err, jobs, roots)
                  ELSE
                    LET c2 == [c1 EXCEPT ![Len(c1)].arg = [job_id |-> job_id, runs |-> runs.val]]
                    IN  IF runs.val = <<>>
                          THEN Finish(o, c2, Str("Job run details not available for job {}"),
                                      jobs, roots)
                        ELSE IF ~Cancellable(LatestRun(runs.val).status)
                          THEN Finish(o, c2, Str("No active job run available for job {}"),
                                      jobs, roots)
                        ELSE \E ok \in BOOLEAN :
                          Finish(o,
                                 c2 \o <<Call("create_cancel_protection_job_run",
                                              [job_id |-> job_id,
                                               job_run_id |-> LatestRun(runs.val).job_run_id])>>,
                                 IF ok THEN Str("Successfully cancelled the run for job {}") ELSE err,
                                 jobs, roots)

\* run_vmware_protection_job, lines 358-387.
run_vmware_protection_job(job_name) ==
    LET o == [name |-> "run_vmware_protection_job", job_name |-> job_name]
        err == Str("Error while attempting to start the job {}, error : {}")
    IN  \E resp \in get_protection_jobs(job_name) :
        LET c0 == get_client.calls \o <<Lookup(job_name, resp)>> IN
          IF ~resp.ok THEN Finish(o, c0, err, jobs, roots)
          ELSE IF resp.val = <<>>
            THEN Finish(o, c0, Str("Job with name {} not available."), jobs, roots)
          ELSE
            LET job_id == JobIdLoop(resp.val, 1, job_name, NoneId)
            IN  IF job_id = NoneId
                  THEN Finish(o, c0, Str("Job with name {} not available."), jobs, roots)
                ELSE \E ok \in BOOLEAN :
                  Finish(o, c0 \o <<Call("create_run_protection_job", [job_id |-> job_id])>>,
                         IF ok THEN Str("Successfully started run for job {}") ELSE err,
                         jobs, roots)

\* delete_vmware_protection_job, lines 390-419.  The cluster keeps the deleted
\* job, marked deleted.
delete_vmware_protection_job(job_name, delete_snapshots) ==
    LET o == [name |-> "delete_vmware_protection_job", job_name |-> job_name,
              delete_snapshots |-> delete_snapshots]
        err == Str("Error while attempting to delete the job {}, error : {}")
    IN  \E resp \in get_protection_jobs(job_name) :
        LET c0 == get_client.calls \o <<Lookup(job_name, resp)>> IN
          IF ~resp.ok THEN Finish(o, c0, err, jobs, roots)
          ELSE IF resp.val = <<>>
            THEN Finish(o, c0, Str("Job with name {} not available."), jobs, roots)
          ELSE
            LET job_id == JobIdLoop(resp.val, 1, job_name, Unbound)
            IN  IF job_id = Unbound
                  THEN Finish(o, c0, Raise("UnboundLocalError"), jobs, roots)
                ELSE \E ok \in BOOLEAN :
                  Finish(o, c0 \o <<Call("delete_protection_job", [job_id |-> job_id, delete_snapshots |-> delete_snapshots])>>,
                         IF ok THEN Str("Successfully deleted job {}") ELSE err,
                         IF ok THEN [jobs EXCEPT ![job_id].is_deleted = TRUE] ELSE jobs,
                         roots)

\* A variant of line 493 that also replaces on an equal started time.
NewerOrSame(timestamp, snapshot_time) == timestamp <= snapshot_time

\* Line 493: a snapshot replaces the one held when it started later.
Newer(timestamp, snapshot_time) == timestamp < snapshot_time

\* The scan of lines 488-498: the snapshot held when the loop ends; nothing is
\* held (job_id, job_run_id and t_stamp are unbound) until one starts after 0.
RECURSIVE SnapshotLoop(_, _, _, _)
SnapshotLoop(snapshots, i, timestamp, held) ==
    IF i > Len(snapshots) THEN held
    ELSE IF Newer(timestamp, snapshots[i].started_time_usecs)
      THEN SnapshotLoop(snapshots, i + 1, snapshots[i].started_time_usecs, i)
    ELSE SnapshotLoop(snapshots, i + 1, timestamp, held)

\* restore_vms, lines 443-516 (prefix, suffix and powered_on at their defaults).
\* The ids of the resource pool and the datastore are looked up and dropped:
\* the request does not carry them.
restore_vms(task_name, vcenter_name, vm_names, resource_pool, datastore_name) ==
    LET o == [name |-> "restore_vms", task_name |-> task_name,
              vcenter_name |-> vcenter_name, vm_names |-> vm_names,
              resource_pool |-> resource_pool, datastore_name |-> datastore_name]
        err == Str("{err}")
    IN  \E r \in get_vmware_source_ids(vcenter_name, split(vm_names)) :
          LET c0 == get_client.calls \o r.calls
              c1 == c0 \o <<Call("list_protection_sources", r.parent_id)>>
          IN  IF r.exc # None THEN Finish(o, c0, Raise(r.exc), jobs, roots)
              ELSE \E source_objects \in list_protection_sources(r.parent_id) :
                IF ~source_objects.ok THEN Finish(o, c1, err, jobs, roots)
                ELSE
                  LET rp == fetch_source_objects(source_objects.val, "kResourcePool",
                                                 resource_pool)
                      ds == fetch_source_objects(rp.source_objects, "kDatastore",
                                                 datastore_name)
                  IN  IF rp.exc # None THEN Finish(o, c1, Raise(rp.exc), jobs, roots)
                      ELSE IF ds.exc # None THEN Finish(o, c1, Raise(ds.exc), jobs, roots)
                      ELSE \E resp \in search_objects :
                        LET c2 == c1 \o <<Call("search_objects",
                                                [search |-> vm_names[1], snapshots |-> resp.val])>>
                            held == SnapshotLoop(resp.val, 1, 0, Unbound)
                            restore_obj ==
                                [job_id |-> resp.val[held].job_id,
                                 job_run_id |-> resp.val[held].job_run_id,
                                 uid |-> resp.val[held].job_uid,
                                 protection_source_id |-> r.source_ids[1],
                                 sourceName |-> vm_names[1],
                                 started_time_usecs |-> resp.val[held].started_time_usecs]
                            c3 == c2 \o <<Call("create_recover_task", restore_obj)>>
                        IN  IF ~resp.ok THEN Finish(o, c2, err, jobs, roots)
                            ELSE IF held = Unbound
                              THEN Finish(o, c2, Raise("UnboundLocalError"), jobs, roots)
                            ELSE IF r.source_ids = <<>>
                              THEN Finish(o, c2, Raise("IndexError"), jobs, roots)
                            ELSE \E ok \in BOOLEAN :
                              Finish(o, c3,
                                     IF ok THEN Str("Successfully created restore task '{}'.")
                                     ELSE err,
                                     jobs, roots)

\* The caller has taken the returned string (or seen the exception): the
\* process waits for the next invocation.
Ready == op.name = "none"

Idle ==
    /\ ~Ready
    /\ op' = [name |-> "none"]
    /\ calls' = <<>>
    /\ ret' = Str("")
    /\ pre' = jobs
    /\ UNCHANGED <<jobs, roots, built, source_tree, fresh>>

Register == Ready /\ \E vcenter \in Endpoints : register_vcenter(vcenter)

Create ==
    Ready /\ \E job_name \in JobNames, vcenter_name \in VcenterNames,
                sources \in SourceArgs, pause_job \in BOOLEAN :
      create_vmware_protection_job(job_name, vcenter_name, sources, pause_job)

Update ==
    Ready /\ \E job_name \in JobNames, vcenter_name \in VcenterNames,
                sources \in SourceArgs, replace_existing \in BOOLEAN :
      update_vmware_protection_job(job_name, vcenter_name, sources, replace_existing)

UpdateState ==
    Ready /\ \E job_name \in JobNames, state \in States :
      update_vmware_protection_job_state(job_name, state)

Cancel == Ready /\ \E job_name \in JobNames : cancel_vmware_protection_job(job_name)

Run == Ready /\ \E job_name \in JobNames : run_vmware_protection_job(job_name)

Delete ==
    Ready /\ \E job_name \in JobNames, delete_snapshots \in BOOLEAN :
      delete_vmware_protection_job(job_name, delete_snapshots)

Restore ==
    Ready /\ \E vcenter_name \in VcenterNames, vm_names \in SourceArgs :
      restore_vms("task", vcenter_name, vm_names, "pool", "")

Next ==
    \/ Idle
    \/ Register
    \/ Create
    \/ Update
    \/ UpdateState
    \/ Cancel
    \/ Run
    \/ Delete
    \/ Restore

Spec == Init /\ [][Next]_vars

\* restore_vms reads the registered roots and nothing of the jobs, and changes
\* neither; the job operations read nothing restore_vms writes.  What holds of
\* the job operations in Spec is therefore decided by SpecJobs, and what holds
\* of restore_vms by SpecRestore.
NextJobs ==
    \/ Idle
    \/ Register
    \/ Create
    \/ Update
    \/ UpdateState
    \/ Cancel
    \/ Run
    \/ Delete

SpecJobs == Init /\ [][NextJobs]_vars

NextRestore ==
    \/ Idle
    \/ Register
    \/ Restore

SpecRestore == Init /\ [][NextRestore]_vars

\* _fetch_source_objects on its own: a caller holds one list_protection_sources
\* answer and calls _fetch_source_objects on it, time after time, for some type
\* and name (restore_vms, lines 476-481: a resource pool, then a datastore).
\* Every call is recorded with what it returned; the answer stays as the call
\* left it.
NameArgs == {"", "p"}

InitFetch ==
    /\ jobs = <<>>
    /\ roots = <<>>
    /\ built = 0
    /\ op = [name |-> "none"]
    /\ calls = <<>>
    /\ ret = Str("")
    /\ pre = <<>>
    /\ source_tree \in SourceObjects
    /\ fresh = source_tree

Fetch ==
    /\ Len(calls) < MaxFetches
    /\ \E source_type \in SourceTypes, name \in NameArgs :
         LET r == fetch_source_objects(source_tree, source_type, name)
         IN  /\ calls' = Append(calls,
                               Call("_fetch_source_objects",
                                    [source_type |-> source_type, name |-> name,
                                     exc |-> r.exc, val |-> r.val,
                                     given |-> source_tree]))
             /\ source_tree' = r.source_objects
    /\ UNCHANGED <<jobs, roots, built, op, ret, pre, fresh>>

NextFetch == Fetch

SpecFetch == InitFetch /\ [][NextFetch]_vars

----------------------------------------------------------------------------
(* Reading the record of the last invocation *)

Issued(api) == {i \in 1..Len(calls) : calls[i].api = api}
HasCall(api) == Issued(api) # {}
Returned(text) == ret = Str(text)

\* Calls that go to the cluster (a client construction and a helper's return do not).
NetworkCalls == {i \in 1..Len(calls) : calls[i].api \notin {"CohesityClient", "_get_vmware_source_ids"}}

\* The get_protection_jobs answer the invocation worked with, if it got one.
Listed == {calls[i].arg.listed : i \in {k \in Issued("get_protection_jobs") : calls[k].arg.ok}}

\* The non-deleted jobs that had exactly this name when the invocation started.
ExactJobs(job_name) == {j \in 1..Len(pre) : ~pre[j].is_deleted /\ pre[j].name = job_name}

MutatingCalls ==
    {"update_protection_job", "update_protection_jobs_state",
     "create_cancel_protection_job_run", "create_run_protection_job",
     "delete_protection_job"}
MutatingOps ==
    {"update_vmware_protection_job", "update_vmware_protection_job_state",
     "cancel_vmware_protection_job", "run_vmware_protection_job",
     "delete_vmware_protection_job"}

----------------------------------------------------------------------------
(* The claims *)

\* C1: every public operation, whatever the server answers to its lookups, ends
\* by returning a string; no exception leaves it.
C1_AlwaysReturnsString == ret.kind = "str"

\* C2: whenever a non-deleted job with exactly the requested name exists,
\* create_vmware_protection_job issues no create_protection_job call, whatever
\* else the name-filtered lookup lists and in whatever order.  (The claim adds
\* that the call then returns the "already exists" message; a create call issued
\* for an existing name refutes it before the message is looked at.)
C2_NoCreateWhenJobExists ==
    (/\ op.name = "create_vmware_protection_job"
     /\ ExactJobs(op.job_name) # {})
    => ~HasCall("create_protection_job")

\* C3: the job id passed to a mutating call always belongs to a non-deleted job
\* whose name equals the requested job_name; and when the lookup lists no job of
\* that name the operation returns a failure message and issues no mutating call.
C3_MutatesOnlyExactMatch ==
    op.name \in MutatingOps =>
      /\ \A i \in 1..Len(calls) :
           calls[i].api \in MutatingCalls => calls[i].arg.job_id \in ExactJobs(op.job_name)
      /\ \A listed \in Listed :
           (\A k \in 1..Len(listed) : listed[k] \notin ExactJobs(op.job_name))
           => /\ ret.kind = "str"
              /\ \A i \in 1..Len(calls) : calls[i].api \notin MutatingCalls

\* C4 as claimed: update_vmware_protection_job_state with a state outside
\* {activate, deactivate, pause, resume} returns the unsupported-state message
\* and issues no network call.
C4_UnsupportedStateNoNetworkCall ==
    (/\ op.name = "update_vmware_protection_job_state"
     /\ op.state \notin {"activate", "deactivate", "pause", "resume"})
    => /\ Returned("Job state {} not supported.")
       /\ NetworkCalls = {}

\* C4 as amended: with such a state the operation issues no call but the job
\* lookup (so no state change), and it returns the unsupported-state message
\* whenever that lookup lists at least one job.
C4_UnsupportedStateNoStateChange ==
    (/\ op.name = "update_vmware_protection_job_state"
     /\ op.state \notin {"activate", "deactivate", "pause", "resume"})
    => /\ \A i \in NetworkCalls : calls[i].api = "get_protection_jobs"
       /\ Cardinality(NetworkCalls) = 1
       /\ \A listed \in Listed :
            listed # <<>> => Returned("Job state {} not supported.")

\* C4 witness: an unsupported state, a lookup that listed a job none of whose
\* names is the requested one, and the unsupported-state message returned.
C4_Witness ==
    /\ op.name = "update_vmware_protection_job_state"
    /\ op.state = "stop"
    /\ \E listed \in Listed : listed # <<>> /\ ExactJobs(op.job_name) = {}
    /\ Returned("Job state {} not supported.")

\* What _get_vmware_source_ids returned to the last invocation.
ResolverReturns == {calls[i].arg : i \in Issued("_get_vmware_source_ids")}

\* C5: create, update and restore treat a parent id of -1 and an empty child-id
\* list returned by the source resolver as failures: they return a failure
\* message and issue no create, update or recover call.
C5_UnresolvedSourceIsFailure ==
    \A r \in ResolverReturns :
      (r.exc = None /\ (r.parent_id = -1 \/ r.source_ids = <<>>))
      => /\ ret.kind = "str"
         /\ ret.text \notin {"Successfully created ProtectionGroup: {}",
                             "Successfully Updated ProtectionGroup: {}",
                             "Successfully created restore task '{}'."}
         /\ ~HasCall("create_protection_job")
         /\ ~HasCall("update_protection_job")
         /\ ~HasCall("create_recover_task")

\* C6: for a name that is neither the endpoint nor the display name of any
\* registered root, _get_vmware_source_ids returns -1 and an empty child list,
\* whatever the child listing answers.
C6_UnknownNameGivesSentinel ==
    \A r \in ResolverReturns :
      (r.exc = None /\ \A k \in 1..Len(roots) : r.name \notin {roots[k].endpoint, roots[k].name})
      => r.parent_id = -1 /\ r.source_ids = <<>>

NoDuplicates(s) == \A i, j \in 1..Len(s) : i # j => s[i] # s[j]

\* C7: the member list update_vmware_protection_job submits: with
\* replace_existing it holds no id of the job's prior list that is not among the
\* newly resolved ids; without, it is the union of the prior list and the newly
\* resolved ids, each id once.
C7_UpdateMemberList ==
    op.name = "update_vmware_protection_job" =>
      \A i \in Issued("update_protection_job") : \A r \in ResolverReturns :
        LET submitted == calls[i].arg.source_ids
            prior == pre[calls[i].arg.job_id].source_ids
        IN  IF op.replace_existing
              THEN Range(submitted) \cap Range(prior) \subseteq Range(r.source_ids)
              ELSE /\ Range(submitted) = Range(prior) \cup Range(r.source_ids)
                   /\ NoDuplicates(submitted)

\* C7 witness: an update without replace_existing of a job that already held one
\* of the two newly resolved ids.
C7_Witness ==
    /\ op.name = "update_vmware_protection_job"
    /\ ~op.replace_existing
    /\ \E i \in Issued("update_protection_job") : \E r \in ResolverReturns :
         /\ Len(r.source_ids) = 2
         /\ Range(pre[calls[i].arg.job_id].source_ids) \cap Range(r.source_ids) # {}
         /\ Len(calls[i].arg.source_ids) = 2
    /\ Returned("Successfully Updated ProtectionGroup: {}")

\* The run started last among runs: run ids grow with time.
MostRecent(runs) == CHOOSE r \in Range(runs) : \A q \in Range(runs) : q.job_run_id <= r.job_run_id

\* The runs get_protection_runs listed to the last invocation, with the job asked for.
RunsListed == {calls[i].arg : i \in {k \in Issued("get_protection_runs") : calls[k].arg.runs # <<>>}}

\* C8: cancel_vmware_protection_job issues a cancellation only for the most
\* recent run of the job it resolved by name, and only when that run is kRunning
\* or kAccepted; when the most recent run has another status it issues none and
\* returns the "no active run" message.
C8_CancelOnlyActiveLatestRun ==
    op.name = "cancel_vmware_protection_job" =>
      /\ \A i \in Issued("create_cancel_protection_job_run") :
           /\ calls[i].arg.job_id \in ExactJobs(op.job_name)
           /\ \E l \in RunsListed :
                /\ l.job_id = calls[i].arg.job_id
                /\ calls[i].arg.job_run_id = MostRecent(l.runs).job_run_id
                /\ MostRecent(l.runs).status \in {"kRunning", "kAccepted"}
      /\ \A l \in RunsListed :
           MostRecent(l.runs).status \notin {"kRunning", "kAccepted"}
           => /\ ~HasCall("create_cancel_protection_job_run")
              /\ Returned("No active job run available for job {}")

\* C8 witness: two runs listed, the most recent finished and the older one still
\* running; nothing is cancelled.
C8_Witness ==
    /\ op.name = "cancel_vmware_protection_job"
    /\ \E l \in RunsListed :
         /\ Len(l.runs) = 2
         /\ MostRecent(l.runs).status = "kSuccess"
         /\ \E q \in Range(l.runs) : q.status = "kRunning"
    /\ Returned("No active job run available for job {}")
    /\ ~HasCall("create_cancel_protection_job_run")

\* C9: over any sequence of public operations in one process the cluster client
\* is constructed at most once.
C9_ClientBuiltOnce == built <= 1

\* The snapshots search_objects listed to the last invocation.
SnapshotsListed == {calls[i].arg.snapshots : i \in Issued("search_objects")}

MaxStarted(snapshots) ==
    CHOOSE t \in {snapshots[i].started_time_usecs : i \in 1..Len(snapshots)} :
      \A i \in 1..Len(snapshots) : snapshots[i].started_time_usecs <= t

Latest(snapshots) ==
    {i \in 1..Len(snapshots) : snapshots[i].started_time_usecs = MaxStarted(snapshots)}

\* The recovery request carries the snapshot at position i of the listing.
Carries(request, snapshots, i) ==
    /\ request.job_id = snapshots[i].job_id
    /\ request.job_run_id = snapshots[i].job_run_id
    /\ request.uid = snapshots[i].job_uid
    /\ request.started_time_usecs = snapshots[i].started_time_usecs

\* C10 as claimed: the recovery request of restore_vms carries the snapshot with
\* the greatest started time among those listed; of several with that time, the
\* one latest in list order.
C10_LastOfLatestSnapshots ==
    op.name = "restore_vms" =>
      \A i \in Issued("create_recover_task") : \A snapshots \in SnapshotsListed :
        \E k \in Latest(snapshots) :
          /\ \A j \in Latest(snapshots) : j <= k
          /\ Carries(calls[i].arg, snapshots, k)

\* C10 as amended: of several snapshots with the greatest started time, the
\* request carries the one earliest in list order.
C10_FirstOfLatestSnapshots ==
    op.name = "restore_vms" =>
      \A i \in Issued("create_recover_task") : \A snapshots \in SnapshotsListed :
        \E k \in Latest(snapshots) :
          /\ \A j \in Latest(snapshots) : k <= j
          /\ Carries(calls[i].arg, snapshots, k)

\* C10 witness: a recovery request issued after a listing in which two snapshots
\* share the greatest started time and an older one precedes them.
C10_Witness ==
    /\ op.name = "restore_vms"
    /\ HasCall("create_recover_task")
    /\ \E snapshots \in SnapshotsListed :
         /\ Cardinality(Latest(snapshots)) = 2
         /\ 1 \notin Latest(snapshots)
    /\ Returned("Successfully created restore task '{}'.")

----------------------------------------------------------------------------
(* Reading the record of the _fetch_source_objects calls *)

\* Every node of the forest, at any depth.
RECURSIVE AllNodes(_)
AllNodes(nodes) ==
    UNION {{nodes[i]} \cup AllNodes(nodes[i].nodes) : i \in 1..Len(nodes)}

\* The nodes of the tree the server gave that carry the requested type and, when a
\* name is asked for, that name.
Matches(source_type, name) ==
    {n \in AllNodes(fresh[1].nodes) :
       n.type = source_type /\ (name = "" \/ n.name = name)}

FetchCalls == {calls[i].arg : i \in Issued("_fetch_source_objects")}

\* C11: over any finite source tree, _fetch_source_objects returns the id of a
\* node, at whatever depth and with or without children, whose type is the
\* requested one and whose name is the requested one when a name is given; it
\* returns None exactly when the tree has no such node, and raises nothing.
\* (The claim adds that the node is the first such one; a call that returns None
\* for a tree that holds a matching node refutes it whatever the order.)
C11_ReturnsAMatchingNode ==
    \A a \in FetchCalls :
        /\ a.exc = None
        /\ IF Matches(a.source_type, a.name) = {}
             THEN a.val = NoneId
             ELSE a.val \in {n.id : n \in Matches(a.source_type, a.name)}

\* C12: what an earlier _fetch_source_objects call appended to the node list
\* does not change what a later call on the same source_objects returns: for
\* every tree and every type and name, each call, whatever calls came before it
\* on that list, ends and returns the id (or None) that the same call returns
\* on the tree as the server gave it.
C12_LaterCallAsOnFreshTree ==
    \A a \in FetchCalls :
        LET f == fetch_source_objects(fresh, a.source_type, a.name)
        IN  a.exc = f.exc /\ a.val = f.val

\* As in restore_vms: a first call that found its node and stopped, having
\* appended children to the list, and a second call for the other type, on the
\* longer list, that found its node too.
C12_Witness ==
    /\ Len(calls) >= 2
    /\ Len(calls[2].arg.given[1].nodes) > Len(fresh[1].nodes)
    /\ calls[1].arg.val # NoneId
    /\ calls[2].arg.val # NoneId
    /\ calls[1].arg.source_type # calls[2].arg.source_type
====
